---- MODULE Spec2Model ----
(***************************************************************************)
(* Model of the in-memory job scheduler (job_scheduler/core):              *)
(* JobScheduler (scheduler.py), ScheduleManager (schedule_manager.py),     *)
(* ScheduledJob and its two subclasses (scheduled_job.py), and the event   *)
(* log written by SchedulerLogger (logging/scheduler_logger.py).           *)
(*                                                                         *)
(* Time is counted in whole minutes since 2030-01-01T00:00:00Z.  The tick  *)
(* loop's one-second cadence is finer than that unit, so a tick-loop       *)
(* thread may take any number of steps between two advances of the clock,  *)
(* and the clock may advance any number of minutes between two steps of a  *)
(* thread (a paused or starved process).                                   *)
(***************************************************************************)
EXTENDS Integers, Sequences, FiniteSets, TLC

\* ------------------------------------------------------------------ bounds
MaxTime == 2
MaxObj == 2
MaxLog == 4
MaxThreads == 2
MaxWrites == 2
MaxCallers == 3

\* ------------------------------------------------------------------ inputs
JobIds == {"a", "b"}

\* The ids remove_job is called with: "a", known or unknown at the time of
\* the call.  Job "b" is the bystander a removal has to leave alone.
RemovedIds == {"a"}

\* models.py Job: job_id, schedule and the task's command (description is
\* an opaque string that no operation reads).
Job(job_id, schedule, command) ==
    [job_id |-> job_id, schedule |-> schedule, command |-> command]

\* Job "a" with a valid cron expression, a four-field cron expression, an
\* instant and an unparseable instant; job "b" with a second valid cron
\* expression.
Jobs ==
    {Job("a", s, "echo 1") :
        s \in {"* * * * *", "* * * *", "2030-01-01T00:02:00Z", "Tomorrow"}}
    \cup {Job("b", "*/2 * * * *", "echo 1")}

\* Further schedule strings handed to create_scheduled_job on its own: an
\* instant without offset, an instant with a +02:00 offset, and a cron
\* expression with a day name (2030-01-01 is a Tuesday).
CreateJobs ==
    Jobs \cup {Job("a", s, "echo 1") :
                  s \in {"2030-01-01T00:01:00", "2030-01-01T02:01:00+02:00",
                         "* * * * TUE"}}

\* the *.json paths of the watch directory
Paths == {"f1", "f2"}

\* the text of a definition file: what Job.from_json_file makes of it
BadJson == [parses |-> FALSE, job |-> Job("", "", "")]

FileJobs ==
    {Job("a", "* * * * *", "echo 1"), Job("b", "*/2 * * * *", "echo 1")}

FileContents == {[parses |-> TRUE, job |-> j] : j \in FileJobs} \cup {BadJson}

\* ----------------------------------------------------- strings and parsing
\* 'T' in s, 'Z' in s, s.endswith('Z') on the schedule strings above.
ContainsT(s) ==
    s \in {"2030-01-01T00:02:00Z", "Tomorrow", "2030-01-01T00:01:00",
           "2030-01-01T02:01:00+02:00", "* * * * TUE"}

ContainsZ(s) == s \in {"2030-01-01T00:02:00Z"}

EndsWithZ(s) == s \in {"2030-01-01T00:02:00Z"}

\* schedule_str[:-1] + '+00:00'
ReplaceZ(s) ==
    IF s = "2030-01-01T00:02:00Z" THEN "2030-01-01T00:02:00+00:00" ELSE s

ValueError == -1

\* datetime.fromisoformat, as minutes since 2030-01-01T00:00:00+00:00.
\* A string without offset gives a naive datetime, which the caller reads
\* as UTC.
fromisoformat(s) ==
    CASE s = "2030-01-01T00:02:00+00:00" -> 2
      [] s = "2030-01-01T00:01:00" -> 1
      [] s = "2030-01-01T02:01:00+02:00" -> 1
      [] OTHER -> ValueError

\* croniter(expr, start): the minute step of a valid five-field expression,
\* ValueError for anything croniter rejects.  "* * * * TUE" matches every
\* minute of a Tuesday, which 2030-01-01 is.
CronStep(s) ==
    CASE s = "* * * * *" -> 1
      [] s = "*/2 * * * *" -> 2
      [] s = "* * * * TUE" -> 1
      [] OTHER -> ValueError

\* croniter.get_next: the first matching minute strictly after cur.
get_next(step, cur) == ((cur \div step) + 1) * step

is_cron_schedule(job) ==
    ~ContainsT(job.schedule) /\ ~ContainsZ(job.schedule)

is_one_time_schedule(job) == ~is_cron_schedule(job)

\* ------------------------------------------------------------------- state
VARIABLES
    now,              \* datetime.now(timezone.utc), in minutes
    jobs,             \* JobScheduler.jobs: job_id -> Job
    scheduled_jobs,   \* JobScheduler.scheduled_jobs, in insertion order
    objs,             \* the ScheduledJob objects created so far
    running,          \* JobScheduler.running
    scheduler_thread, \* JobScheduler.scheduler_thread (0: None)
    tick,             \* the threads running JobScheduler._run
    ctl,              \* the thread calling start()/stop(): "idle" or "join"
    log,              \* the lines of scheduler.log
    workers,          \* the running threads JobExecutor.execute started
    files,            \* the *.json files of the watch directory
    watcher,          \* the JobFileWatcher and its thread
    job_logs,         \* the execution log files, and what went to stderr
    db,               \* the jobs table, and what load_job last returned
    lock,             \* JobScheduler.lock: the thread that holds it
    api,              \* the thread calling add_job / remove_job step by step
    limiter           \* the ResourceLimiter and the threads calling it

vars == <<now, jobs, scheduled_jobs, objs, running, scheduler_thread,
          tick, ctl, log, workers, files, watcher, job_logs, db, lock, api,
          limiter>>

ThreadIds == 1..MaxThreads

\* the threads that call the ResourceLimiter
CallerIds == 1..MaxCallers

\* ------------------------------------------------ insertion-ordered dict
Keys(d) == {d[i].key : i \in 1..Len(d)}

Get(d, k) == d[CHOOSE i \in 1..Len(d) : d[i].key = k].val

Put(d, k, v) ==
    IF k \in Keys(d)
    THEN [i \in 1..Len(d) |->
             IF d[i].key = k THEN [key |-> k, val |-> v] ELSE d[i]]
    ELSE Append(d, [key |-> k, val |-> v])

Del(d, k) == SelectSeq(d, LAMBDA e : e.key # k)

Values(d) == [i \in 1..Len(d) |-> d[i].val]

\* dict with string keys where iteration order is never used
EmptyMap == [k \in {} |-> 0]

MapPut(m, k, v) ==
    [x \in (DOMAIN m) \cup {k} |-> IF x = k THEN v ELSE m[x]]

MapDel(m, k) == [x \in (DOMAIN m) \ {k} |-> m[x]]

\* --------------------------------------------------------------- event log
Event(type, job_id, old_schedule, new_schedule, error) ==
    [type |-> type, job_id |-> job_id, old_schedule |-> old_schedule,
     new_schedule |-> new_schedule, error |-> error]

log_add(job_id, schedule) == Event("ADD", job_id, "", schedule, "")

log_update(job_id, schedule) == Event("UPDATE", job_id, "", schedule, "")

log_delete(job_id) == Event("DELETE", job_id, "", "", "")

log_schedule_change(job_id, old_schedule, new_schedule) ==
    Event("SCHEDULE_CHANGE", job_id, old_schedule, new_schedule, "")

log_start == Event("START", "", "", "", "")

log_stop == Event("STOP", "", "", "", "")

log_error(job_id, error_msg) == Event("ERROR", job_id, "", "", error_msg)

\* ------------------------------------------------------ ScheduledJob objects
\* One record shape for both subclasses.  runs and removed are history
\* fields: the number of times the object was handed to JobExecutor.execute
\* and whether remove_job cancelled it.  last_check_time is written by
\* __init__ and mark_executed and read nowhere, so it is left out.
NoEntry == [kind |-> "none"]

OneTimeScheduledJob(job, schedule_time) ==
    [kind |-> "once", job |-> job, cancelled |-> FALSE,
     schedule_time |-> schedule_time,
     step |-> 0, cur |-> 0, next_run_time |-> 0,
     runs |-> 0, removed |-> FALSE]

\* RecurringScheduledJob.__init__: the first get_next of a croniter seeded
\* at start.
RecurringScheduledJob(job, step, start) ==
    [kind |-> "cron", job |-> job, cancelled |-> FALSE,
     schedule_time |-> 0,
     step |-> step, cur |-> get_next(step, start),
     next_run_time |-> get_next(step, start),
     runs |-> 0, removed |-> FALSE]

cancel(e) == [e EXCEPT !.cancelled = TRUE]

\* a should_run that does not look at cancelled
should_run_ignore_cancel(e) ==
    IF e.kind = "once" THEN now >= e.schedule_time
    ELSE now >= e.next_run_time

should_run(e) ==
    IF e.cancelled THEN FALSE
    ELSE IF e.kind = "once" THEN now >= e.schedule_time
    ELSE now >= e.next_run_time

\* mark_executed only stamps last_check_time (pass for a one-shot entry).
mark_executed(e) == e

\* a reschedule that reads the iterator without advancing it
reschedule_no_advance(e) ==
    [e EXCEPT !.next_run_time = e.cur]

reschedule(e) ==
    [e EXCEPT !.cur = get_next(e.step, e.cur),
              !.next_run_time = get_next(e.step, e.cur)]

\* ----------------------------------------------------------- ScheduleManager
\* a _create_one_time_job that accepts an instant equal to now
create_one_time_job_accept_now(job) ==
    LET schedule_str == IF EndsWithZ(job.schedule)
                        THEN ReplaceZ(job.schedule) ELSE job.schedule
        schedule_time == fromisoformat(schedule_str)
    IN  IF schedule_time = ValueError
        THEN [entry |-> NoEntry,
              events |-> <<log_error(job.job_id, "Invalid schedule format")>>]
        ELSE IF schedule_time < now
        THEN [entry |-> NoEntry, events |-> << >>]
        ELSE [entry |-> OneTimeScheduledJob(job, schedule_time),
              events |-> << >>]

\* Each returns the entry (or NoEntry for None) and the events it wrote.
create_one_time_job(job) ==
    LET schedule_str == IF EndsWithZ(job.schedule)
                        THEN ReplaceZ(job.schedule) ELSE job.schedule
        schedule_time == fromisoformat(schedule_str)
    IN  IF schedule_time = ValueError
        THEN [entry |-> NoEntry,
              events |-> <<log_error(job.job_id, "Invalid schedule format")>>]
        ELSE IF schedule_time <= now
        THEN [entry |-> NoEntry, events |-> << >>]
        ELSE [entry |-> OneTimeScheduledJob(job, schedule_time),
              events |-> << >>]

create_recurring_job(job) ==
    IF CronStep(job.schedule) = ValueError
    THEN [entry |-> NoEntry,
          events |-> <<log_error(job.job_id, "Invalid cron expression")>>]
    ELSE [entry |-> RecurringScheduledJob(job, CronStep(job.schedule), now),
          events |-> << >>]

create_scheduled_job(job) ==
    IF is_one_time_schedule(job)
    THEN create_one_time_job(job)
    ELSE create_recurring_job(job)

\* ------------------------------------------------------------ JobFileWatcher
\* JobFileWatcher.__init__
JobFileWatcher ==
    [running |-> FALSE, pc |-> "dead",
     file_timestamps |-> EmptyMap, file_to_job_id |-> EmptyMap,
     json_files |-> {}, current_files |-> EmptyMap,
     file_path |-> "", job |-> Job("", "", "")]

\* the watch directory: whether it exists, the last modification time the
\* file system handed out, and path -> [mtime, content] of its *.json files.
\* changed is a history field: whether a file was written or deleted since
\* the watcher last listed the directory.
WatchDirectory ==
    [exists |-> TRUE, stamp |-> 0, dir |-> EmptyMap, changed |-> FALSE]

\* JobLogger.__init__: no execution log file yet; uuids counts the
\* execution ids uuid4() has handed out, stderr the lines printed to it
JobLogger == [uuids |-> 0, files |-> {}, stderr |-> << >>]

\* The jobs table of a new database, and None for the value load_job last
\* returned.
None == [kind |-> "None"]

Database == [jobs |-> EmptyMap, loaded |-> None]

\* threading.Lock(): held by no thread.  The tick-loop threads are 1, 2, ...;
\* MainThread is the thread that calls add_job and remove_job.
NoThread == 0

MainThread == MaxThreads + 1

Lock == NoThread

\* The thread that calls add_job and remove_job: not inside a call.
ApiThread == [pc |-> "idle", event |-> None]

\* A thread that may call the limiter: in no call, and acquire has not
\* returned True to it.
Caller == [pc |-> "idle", job_id |-> "", execution_id |-> 0]

\* ResourceLimiter.__init__ in a process started with
\* MAX_CONCURRENT_JOBS=2: semaphore is the number of free permits of
\* threading.Semaphore(max_concurrent), callers the threads that use the
\* limiter.
ResourceLimiter ==
    [max_concurrent |-> 2, active_jobs |-> EmptyMap, semaphore |-> 2,
     callers |-> [c \in CallerIds |-> Caller]]

\* -------------------------------------------------------------- JobScheduler
Init ==
    /\ now = 0
    /\ jobs = EmptyMap
    /\ scheduled_jobs = << >>
    /\ objs = << >>
    /\ running = FALSE
    /\ scheduler_thread = 0
    /\ tick = [t \in ThreadIds |-> [pc |-> "dead", jobs_to_run |-> << >>, i |-> 0]]
    /\ ctl = "idle"
    /\ log = << >>
    /\ workers = EmptyMap
    /\ files = WatchDirectory
    /\ watcher = JobFileWatcher
    /\ job_logs = JobLogger
    /\ db = Database
    /\ lock = Lock
    /\ api = ApiThread
    /\ limiter = ResourceLimiter

\* _schedule_job: the objects and the entry map after the call.
schedule_job_objs(job, created) ==
    LET cancelled_objs ==
            IF job.job_id \in Keys(scheduled_jobs)
            THEN [objs EXCEPT ![Get(scheduled_jobs, job.job_id)] = cancel(@)]
            ELSE objs
    IN  IF created.entry # NoEntry
        THEN Append(cancelled_objs, created.entry)
        ELSE cancelled_objs

schedule_job_entries(job, created) ==
    IF created.entry # NoEntry
    THEN Put(scheduled_jobs, job.job_id, Len(objs) + 1)
    ELSE scheduled_jobs

\* an add_job that logs every change of a known job as UPDATE
add_job_event_always_update(is_new, old_schedule, job) ==
    IF is_new THEN log_add(job.job_id, job.schedule)
    ELSE log_update(job.job_id, job.schedule)

\* The event add_job writes after scheduling.
add_job_event(is_new, old_schedule, job) ==
    IF is_new THEN log_add(job.job_id, job.schedule)
    ELSE IF old_schedule # job.schedule
    THEN log_schedule_change(job.job_id, old_schedule, job.schedule)
    ELSE log_update(job.job_id, job.schedule)

\* an add_job that keeps the Job already stored under the id
add_job_jobs_keep_old(job) ==
    IF job.job_id \in DOMAIN jobs THEN jobs ELSE MapPut(jobs, job.job_id, job)

\* self.jobs[job.job_id] = job
add_job_jobs(job) == MapPut(jobs, job.job_id, job)

\* add_job: what the call does to the registry and the log.
add_job_call(job) ==
    LET is_new == job.job_id \notin DOMAIN jobs
        old_schedule == IF job.job_id \in DOMAIN jobs
                        THEN jobs[job.job_id].schedule ELSE ""
        created == create_scheduled_job(job)
    IN  /\ Len(log) + Len(created.events) + 1 <= MaxLog
        /\ created.entry # NoEntry => Len(objs) < MaxObj
        /\ jobs' = add_job_jobs(job)
        /\ objs' = schedule_job_objs(job, created)
        /\ scheduled_jobs' = schedule_job_entries(job, created)
        /\ log' = log \o created.events
                      \o <<add_job_event(is_new, old_schedule, job)>>

\* add_job called by a client of the scheduler.
add_job(job) ==
    /\ add_job_call(job)
    /\ UNCHANGED <<workers, files, watcher, job_logs, db, lock, api, limiter>>
    /\ UNCHANGED <<now, running, scheduler_thread, tick, ctl>>

\* a remove_job that leaves the Job in the job map
remove_job_jobs_keep(job_id) == jobs

remove_job_jobs(job_id) ==
    IF job_id \in DOMAIN jobs THEN MapDel(jobs, job_id) ELSE jobs

remove_job_objs(job_id) ==
    IF job_id \in Keys(scheduled_jobs)
    THEN [objs EXCEPT ![Get(scheduled_jobs, job_id)] =
              [cancel(@) EXCEPT !.removed = TRUE]]
    ELSE objs

\* a remove_job that cancels the entry without deleting it
remove_job_entries_keep(job_id) == scheduled_jobs

remove_job_entries(job_id) ==
    IF job_id \in Keys(scheduled_jobs)
    THEN Del(scheduled_jobs, job_id) ELSE scheduled_jobs

remove_job_log(job_id) == Append(log, log_delete(job_id))

\* remove_job: what the call does to the registry and the log.
remove_job_call(job_id) ==
    /\ Len(log) < MaxLog
    /\ jobs' = remove_job_jobs(job_id)
    /\ objs' = remove_job_objs(job_id)
    /\ scheduled_jobs' = remove_job_entries(job_id)
    /\ log' = remove_job_log(job_id)

\* remove_job called by a client of the scheduler.
remove_job(job_id) ==
    /\ remove_job_call(job_id)
    /\ UNCHANGED <<workers, files, watcher, job_logs, db, lock, api, limiter>>
    /\ UNCHANGED <<now, running, scheduler_thread, tick, ctl>>

\* start(): a no-op when already running, else a new thread runs _run.
start ==
    /\ ctl = "idle"
    /\ IF running
       THEN UNCHANGED <<running, scheduler_thread, tick, log>>
       ELSE /\ Len(log) < MaxLog
            /\ \E t \in ThreadIds :
                 /\ tick[t].pc = "dead"
                 /\ \A u \in ThreadIds : u < t => tick[u].pc # "dead"
                 /\ tick' = [tick EXCEPT ![t] =
                        [pc |-> "loop", jobs_to_run |-> << >>, i |-> 0]]
                 /\ scheduler_thread' = t
            /\ running' = TRUE
            /\ log' = Append(log, log_start)
    /\ UNCHANGED <<workers, files, watcher, job_logs, db, lock, api, limiter>>
    /\ UNCHANGED <<now, jobs, scheduled_jobs, objs, ctl>>

\* stop(): clear the flag, then join(timeout=5) the last started thread.
stop_begin ==
    /\ ctl = "idle"
    /\ Len(log) < MaxLog
    /\ running' = FALSE
    /\ IF scheduler_thread # 0
       THEN ctl' = "join" /\ UNCHANGED log
       ELSE ctl' = "idle" /\ log' = Append(log, log_stop)
    /\ UNCHANGED <<workers, files, watcher, job_logs, db, lock, api, limiter>>
    /\ UNCHANGED <<now, jobs, scheduled_jobs, objs, scheduler_thread, tick>>

\* join returns because the thread has ended, or because 5 s have passed.
stop_join ==
    /\ ctl = "join"
    /\ \E timed_out \in BOOLEAN :
         IF timed_out
         THEN tick[scheduler_thread].pc # "dead"
         ELSE tick[scheduler_thread].pc = "dead"
    /\ ctl' = "idle"
    /\ log' = Append(log, log_stop)
    /\ UNCHANGED <<workers, files, watcher, job_logs, db, lock, api, limiter>>
    /\ UNCHANGED <<now, jobs, scheduled_jobs, objs, running,
                   scheduler_thread, tick>>

\* _run, one thread t.  "dead": not started, or returned; "loop": the while
\* test (after the sleep); "snapshot": the locked scan; "dispatch": execute
\* and mark_executed of jobs_to_run[i]; "post": the locked reschedule or
\* eviction.  jobs_to_run is assigned by the scan before anything reads it,
\* so it is kept only from the scan to the last "post" of the iteration.
run_loop(t) ==
    /\ tick[t].pc = "loop"
    /\ tick' = [tick EXCEPT ![t] =
           IF running THEN [@ EXCEPT !.pc = "snapshot"]
           ELSE [pc |-> "dead", jobs_to_run |-> << >>, i |-> 0]]
    /\ UNCHANGED <<workers, files, watcher, job_logs, db, lock, api, limiter>>
    /\ UNCHANGED <<now, jobs, scheduled_jobs, objs, running,
                   scheduler_thread, ctl, log>>

due_entries ==
    SelectSeq(Values(scheduled_jobs), LAMBDA o : should_run(objs[o]))

run_snapshot(t) ==
    /\ tick[t].pc = "snapshot"
    /\ tick' = [tick EXCEPT ![t] =
           IF due_entries = << >>
           THEN [pc |-> "loop", jobs_to_run |-> << >>, i |-> 0]
           ELSE [pc |-> "dispatch", jobs_to_run |-> due_entries, i |-> 1]]
    /\ UNCHANGED <<workers, files, watcher, job_logs, db, lock, api, limiter>>
    /\ UNCHANGED <<now, jobs, scheduled_jobs, objs, running,
                   scheduler_thread, ctl, log>>

\* JobExecutor.execute: one more hand-off of the entry to a worker thread.
execute(e) == [e EXCEPT !.runs = @ + 1]

\* threading.Thread(target=run, daemon=True).start(): workers maps an entry
\* object to the number of its worker threads that are still running.
thread_start(o) ==
    MapPut(workers, o, IF o \in DOMAIN workers THEN workers[o] + 1 ELSE 1)

\* JobExecutor.execute, then mark_executed.
run_dispatch(t) ==
    /\ tick[t].pc = "dispatch"
    /\ LET o == tick[t].jobs_to_run[tick[t].i]
       IN  /\ objs' = [objs EXCEPT ![o] = mark_executed(execute(@))]
           /\ workers' = thread_start(o)
    /\ tick' = [tick EXCEPT ![t].pc = "post"]
    /\ UNCHANGED <<now, jobs, scheduled_jobs, running,
                   scheduler_thread, ctl, log, files, watcher,
                   job_logs, db, lock, api, limiter>>

\* a tick loop whose thread ends when an iteration raises
run_except_uncaught(t) ==
    /\ tick' = [tick EXCEPT ![t] =
           [pc |-> "dead", jobs_to_run |-> << >>, i |-> 0]]
    /\ UNCHANGED log

\* _run: except Exception: log the error, sleep, test the flag again
run_except(t) ==
    /\ Len(log) < MaxLog
    /\ log' = Append(log, log_error("", "can't start new thread"))
    /\ tick' = [tick EXCEPT ![t] =
           [pc |-> "loop", jobs_to_run |-> << >>, i |-> 0]]

\* JobExecutor.execute raises: thread.start() finds no thread to start
run_fault(t) ==
    /\ tick[t].pc = "dispatch"
    /\ run_except(t)
    /\ UNCHANGED <<now, jobs, scheduled_jobs, objs, running,
                   scheduler_thread, ctl, workers, files, watcher,
                   job_logs, db, lock, api, limiter>>

\* an execute that runs the task in the calling thread: the caller goes on
\* when no worker of the entry is running
execute_returned_after_task(o) == o \notin DOMAIN workers

\* execute returns as soon as the worker thread is started.
execute_returned(o) == TRUE

\* a tick loop that never evicts
evict_never(o) == scheduled_jobs

\* the entry map after the tick loop's eviction of one-shot object o
evict(o) ==
    IF objs[o].job.job_id \in Keys(scheduled_jobs)
    THEN Del(scheduled_jobs, objs[o].job.job_id)
    ELSE scheduled_jobs

run_post(t) ==
    /\ tick[t].pc = "post"
    /\ execute_returned(tick[t].jobs_to_run[tick[t].i])
    /\ LET o == tick[t].jobs_to_run[tick[t].i]
       IN  IF objs[o].kind = "cron"
           THEN /\ objs' = [objs EXCEPT ![o] = reschedule(@)]
                /\ UNCHANGED scheduled_jobs
           ELSE /\ scheduled_jobs' = evict(o)
                /\ UNCHANGED objs
    /\ tick' = [tick EXCEPT ![t] =
           IF tick[t].i < Len(tick[t].jobs_to_run)
           THEN [@ EXCEPT !.i = @ + 1, !.pc = "dispatch"]
           ELSE [pc |-> "loop", jobs_to_run |-> << >>, i |-> 0]]
    /\ UNCHANGED <<workers, files, watcher, job_logs, db, lock, api, limiter>>
    /\ UNCHANGED <<now, jobs, running, scheduler_thread, ctl, log>>

\* the wall clock
clock ==
    /\ now < MaxTime
    /\ now' = now + 1
    /\ UNCHANGED <<workers, files, watcher, job_logs, db, lock, api, limiter>>
    /\ UNCHANGED <<jobs, scheduled_jobs, objs, running, scheduler_thread,
                   tick, ctl, log>>

Next ==
    \/ \E job \in Jobs : add_job(job)
    \/ \E job_id \in RemovedIds : remove_job(job_id)
    \/ start
    \/ stop_begin
    \/ stop_join
    \/ \E t \in ThreadIds : run_loop(t)
    \/ \E t \in ThreadIds : run_snapshot(t)
    \/ \E t \in ThreadIds : run_dispatch(t)
    \/ \E t \in ThreadIds : run_post(t)
    \/ clock

\* In Spec no worker thread ends: an execution may last arbitrarily long, and
\* nothing a worker does is read by the scheduler.
Spec == Init /\ [][Next]_vars

\* ------------------------------------------------------ executions in flight
\* What subprocess.run can do with the command: the child exits with a
\* return code after writing to stdout and stderr, the hour passes
\* (TimeoutExpired), or the host cannot start it (OSError).
Outcome(kind, returncode, stdout, stderr) ==
    [kind |-> kind, returncode |-> returncode,
     stdout |-> stdout, stderr |-> stderr]

Outcomes ==
    {Outcome("exit", 0, "out", ""), Outcome("exit", 0, "out", "warn"),
     Outcome("exit", 1, "", "err"), Outcome("exit", 2, "out", "err"),
     Outcome("timeout", 0, "", ""), Outcome("oserror", 0, "", "")}

\* an executor that takes every child that ran to its end for a success
execute_command_lenient(outcome) ==
    IF outcome.kind = "exit"
    THEN [success |-> TRUE, stdout |-> outcome.stdout, stderr |-> "",
          exit_code |-> outcome.returncode]
    ELSE [success |-> FALSE, stdout |-> "", stderr |-> "Command failed",
          exit_code |-> -1]

\* ExecuteCommandExecutor.execute: (success, stdout, stderr, exit_code)
execute_command(outcome) ==
    IF outcome.kind = "exit"
    THEN IF outcome.returncode = 0
         THEN [success |-> TRUE, stdout |-> outcome.stdout, stderr |-> "",
               exit_code |-> outcome.returncode]
         ELSE [success |-> FALSE, stdout |-> outcome.stdout,
               stderr |-> outcome.stderr, exit_code |-> outcome.returncode]
    ELSE IF outcome.kind = "timeout"
    THEN [success |-> FALSE, stdout |-> "", stderr |-> "Command timed out",
          exit_code |-> -1]
    ELSE [success |-> FALSE, stdout |-> "",
          stderr |-> "Error executing command", exit_code |-> -1]

\* a logger that keeps one file per job, <job_id>.log
log_execution_per_job(job_id, execution_id, status, command, result, written) ==
    [job_logs EXCEPT
        !.files = IF written
                  THEN {r \in @ : r.job_id # job_id}
                       \cup {[execution_id |-> execution_id,
                               job_id |-> job_id, command |-> command,
                               status |-> status,
                               exit_code |-> result.exit_code,
                               stdout |-> result.stdout,
                               stderr |-> result.stderr]}
                  ELSE @,
        !.stderr = IF written THEN @ ELSE Append(@, job_id)]

\* JobLogger.log_execution: the file <job_id>/<execution_id>.log, or, when
\* the file cannot be written, one line on stderr
log_execution(job_id, execution_id, status, command, result, written) ==
    [job_logs EXCEPT
        !.files = IF written
                  THEN @ \cup {[execution_id |-> execution_id,
                                job_id |-> job_id, command |-> command,
                                status |-> status,
                                exit_code |-> result.exit_code,
                                stdout |-> result.stdout,
                                stderr |-> result.stderr]}
                  ELSE @,
        !.stderr = IF written THEN @ ELSE Append(@, job_id)]

\* The run() closure of JobExecutor.execute, for one worker thread of
\* entry o: uuid4, the task executor, log_execution; the thread ends.
execute_run(o, outcome, written) ==
    /\ o \in DOMAIN workers
    /\ LET job == objs[o].job
           execution_id == job_logs.uuids + 1
           result == execute_command(outcome)
           status == IF result.success THEN "SUCCESS" ELSE "FAILURE"
       IN  job_logs' = [log_execution(job.job_id, execution_id, status,
                                      job.command, result, written)
                        EXCEPT !.uuids = execution_id]
    /\ workers' = IF workers[o] = 1 THEN MapDel(workers, o)
                  ELSE [workers EXCEPT ![o] = @ - 1]
    /\ UNCHANGED <<now, jobs, scheduled_jobs, objs, running,
                   scheduler_thread, tick, ctl, log, files, watcher,
                   db, lock, api, limiter>>

\* The child of a worker of entry o exits with 0 or with 1, and the
\* execution log file is written.
worker_done(o) ==
    \E outcome \in {Outcome("exit", 0, "out", ""), Outcome("exit", 1, "", "err")} :
        execute_run(o, outcome, TRUE)

\* settings.max_concurrent_jobs, as set by MAX_CONCURRENT_JOBS=1.
max_concurrent_jobs == 1

\* The jobs of a scheduler that is started once and left running.
ExecJobs == {Job("a", "* * * * *", "echo 1"), Job("b", "*/2 * * * *", "echo 1")}

\* A step of the tick-loop thread t.
TickStep(t) ==
    run_loop(t) \/ run_snapshot(t) \/ run_dispatch(t) \/ run_post(t)

NextExec ==
    \/ \E job \in ExecJobs : add_job(job)
    \/ start
    \/ \E t \in ThreadIds : run_loop(t)
    \/ \E t \in ThreadIds : run_snapshot(t)
    \/ \E t \in ThreadIds : run_dispatch(t)
    \/ \E t \in ThreadIds : run_post(t)
    \/ \E o \in 1..MaxObj : worker_done(o)
    \/ clock

\* The tick-loop threads are scheduled fairly; workers may run for ever.
SpecExec ==
    /\ Init
    /\ [][NextExec]_vars
    /\ \A t \in ThreadIds : WF_vars(TickStep(t))

\* ------------------------------------------------- executions run to the end
\* The job of a scheduler whose worker threads run to their end.
RunJob == Job("a", "* * * * *", "echo 1")

\* The worker thread of entry o runs run() to its end: the child ends in any
\* of the ways subprocess.run allows, and the log file is written or not.
worker_run(o) ==
    \E outcome \in Outcomes, written \in BOOLEAN :
        execute_run(o, outcome, written)

NextRun ==
    \/ add_job(RunJob)
    \/ start
    \/ \E t \in ThreadIds : run_loop(t)
    \/ \E t \in ThreadIds : run_snapshot(t)
    \/ \E t \in ThreadIds : run_dispatch(t)
    \/ \E t \in ThreadIds : run_post(t)
    \/ \E o \in 1..MaxObj : worker_run(o)
    \/ clock

\* The tick-loop threads and the worker threads are scheduled fairly.
SpecRun ==
    /\ Init
    /\ [][NextRun]_vars
    /\ \A t \in ThreadIds : WF_vars(TickStep(t))
    /\ \A o \in 1..MaxObj : WF_vars(worker_run(o))

\* ------------------------------------------------- the registry lock, by step
\* add_job and remove_job step by step: the with block is entered and the
\* registry updated (the step of add_job_call and remove_job_call up to their
\* last log line), then, still inside the block, the event is written to
\* scheduler.log, and the block is left.
add_job_enter(job) ==
    LET is_new == job.job_id \notin DOMAIN jobs
        old_schedule == IF job.job_id \in DOMAIN jobs
                        THEN jobs[job.job_id].schedule ELSE ""
        created == create_scheduled_job(job)
    IN  /\ api.pc = "idle"
        /\ lock = NoThread
        /\ Len(log) + Len(created.events) + 1 <= MaxLog
        /\ created.entry # NoEntry => Len(objs) < MaxObj
        /\ lock' = MainThread
        /\ jobs' = add_job_jobs(job)
        /\ objs' = schedule_job_objs(job, created)
        /\ scheduled_jobs' = schedule_job_entries(job, created)
        /\ log' = log \o created.events
        /\ api' = [pc |-> "log",
                   event |-> add_job_event(is_new, old_schedule, job)]
        /\ UNCHANGED <<now, running, scheduler_thread, tick, ctl, workers,
                       files, watcher, job_logs, db, limiter>>

remove_job_enter(job_id) ==
    /\ api.pc = "idle"
    /\ lock = NoThread
    /\ Len(log) < MaxLog
    /\ lock' = MainThread
    /\ jobs' = remove_job_jobs(job_id)
    /\ objs' = remove_job_objs(job_id)
    /\ scheduled_jobs' = remove_job_entries(job_id)
    /\ api' = [pc |-> "log", event |-> log_delete(job_id)]
    /\ UNCHANGED <<now, running, scheduler_thread, tick, ctl, log, workers,
                   files, watcher, job_logs, db, limiter>>

\* SchedulerLogger._write_log, called from inside the with block, and the
\* end of the block.
write_log ==
    /\ api.pc = "log"
    /\ log' = Append(log, api.event)
    /\ api' = ApiThread
    /\ lock' = NoThread
    /\ UNCHANGED <<now, jobs, scheduled_jobs, objs, running,
                   scheduler_thread, tick, ctl, workers, files, watcher,
                   job_logs, db, limiter>>

\* A tick-loop thread enters a with block of _run only when the lock is
\* free, and has left it at the end of the step.
NextLock ==
    \/ \E job \in ExecJobs : add_job_enter(job)
    \/ \E job_id \in RemovedIds : remove_job_enter(job_id)
    \/ write_log
    \/ start
    \/ \E t \in ThreadIds : run_loop(t)
    \/ \E t \in ThreadIds : lock = NoThread /\ run_snapshot(t)
    \/ \E t \in ThreadIds : run_dispatch(t)
    \/ \E t \in ThreadIds : lock = NoThread /\ run_post(t)
    \/ clock

SpecLock == Init /\ [][NextLock]_vars

\* ----------------------------------------------------------- ResourceLimiter
limiter_frame ==
    UNCHANGED <<now, jobs, scheduled_jobs, objs, running, scheduler_thread,
                tick, ctl, log, workers, files, watcher, job_logs, db, lock,
                api>>

\* acquire(job_id, execution_id), its first statement:
\* self.semaphore.acquire(blocking=False) takes a permit when one is free;
\* when none is, acquire logs the warning and returns False.
acquire_semaphore(c, job_id, execution_id) ==
    /\ limiter.callers[c].pc = "idle"
    /\ IF limiter.semaphore > 0
       THEN limiter' = [limiter EXCEPT
                !.semaphore = @ - 1,
                !.callers[c] = [pc |-> "acquired", job_id |-> job_id,
                                execution_id |-> execution_id]]
       ELSE limiter' = [limiter EXCEPT
                !.callers[c] = [pc |-> "idle", job_id |-> job_id,
                                execution_id |-> execution_id]]
    /\ limiter_frame

\* acquire, with the permit taken: under self.lock,
\* self.active_jobs[job_id] = execution_id, and True is returned.
acquire_record(c) ==
    /\ limiter.callers[c].pc = "acquired"
    /\ limiter' = [limiter EXCEPT
           !.active_jobs = MapPut(@, limiter.callers[c].job_id,
                                  limiter.callers[c].execution_id),
           !.callers[c].pc = "holding"]
    /\ limiter_frame

\* release(job_id), called once by a thread acquire returned True to: only
\* when job_id is a key of active_jobs is the key deleted and a permit given
\* back.
release(c) ==
    /\ limiter.callers[c].pc = "holding"
    /\ LET job_id == limiter.callers[c].job_id
       IN  IF job_id \in DOMAIN limiter.active_jobs
           THEN limiter' = [limiter EXCEPT
                    !.active_jobs = MapDel(@, job_id),
                    !.semaphore = @ + 1,
                    !.callers[c] = Caller]
           ELSE limiter' = [limiter EXCEPT !.callers[c] = Caller]
    /\ limiter_frame

\* Executions that take a permit before they run a job and give it back
\* when they are done; the execution id is the thread's own.
NextLimiter ==
    \/ \E c \in CallerIds, job_id \in JobIds : acquire_semaphore(c, job_id, c)
    \/ \E c \in CallerIds : acquire_record(c)
    \/ \E c \in CallerIds : release(c)

SpecLimiter == Init /\ [][NextLimiter]_vars

\* ------------------------------------------------------------ JobPersistence
\* models.py ExecuteCommandTask and Job, with all four fields of a Job.
ExecuteCommandTask(command) ==
    [type |-> "execute_command", command |-> command]

JobDefinition(job_id, description, schedule, task) ==
    [job_id |-> job_id, description |-> description,
     schedule |-> schedule, task |-> task]

\* The valid jobs handed to save_job: Job.from_dict accepts each of them.
ValidJobs ==
    {JobDefinition(job_id, description, "* * * * *",
                   ExecuteCommandTask(command)) :
        job_id \in JobIds, description \in {"", "nightly"},
        command \in {"echo 1", "true"}}

\* a serialisation that keeps only the type of the task
json_dumps_type_only(task) == << <<"type", task.type>> >>

\* json.dumps({"type": task.type, **rest of task.__dict__}): the text of a
\* JSON object, as the sequence of its key/value pairs.
json_dumps(task) == << <<"type", task.type>>, <<"command", task.command>> >>

\* json.loads of such a text: the dict of its pairs.
json_loads(text) ==
    [k \in {text[i][1] : i \in 1..Len(text)} |->
        text[CHOOSE i \in 1..Len(text) : text[i][1] = k][2]]

\* Task.from_dict / ExecuteCommandTask.from_dict; None stands for the
\* ValueError of an unknown type or a missing command.
task_from_dict(data) ==
    IF "type" \in DOMAIN data /\ data["type"] = "execute_command"
    THEN IF "command" \in DOMAIN data /\ data["command"] # ""
         THEN ExecuteCommandTask(data["command"])
         ELSE None
    ELSE None

\* A row of the jobs table (db_models.py JobModel).
JobModel(job_id, description, schedule, task_type, task_config, enabled) ==
    [job_id |-> job_id, description |-> description, schedule |-> schedule,
     task_type |-> task_type, task_config |-> task_config,
     enabled |-> enabled]

\* The rest of the program is not involved in a database call.
db_frame ==
    UNCHANGED <<now, jobs, scheduled_jobs, objs, running, scheduler_thread,
                tick, ctl, log, workers, files, watcher, job_logs, lock,
                api, limiter>>

\* JobPersistence.save_job: update the row of the job_id, or insert one.
save_job(job) ==
    /\ db' = [db EXCEPT !.jobs =
                IF job.job_id \in DOMAIN @
                THEN [@ EXCEPT ![job.job_id] =
                        [@ EXCEPT !.description = job.description,
                                  !.schedule = job.schedule,
                                  !.task_type = job.task.type,
                                  !.task_config = json_dumps(job.task)]]
                ELSE MapPut(@, job.job_id,
                            JobModel(job.job_id, job.description,
                                     job.schedule, job.task.type,
                                     json_dumps(job.task), TRUE))]
    /\ db_frame

\* What JobPersistence.load_job returns for job_id.
load_job_returns(job_id) ==
    IF job_id \notin DOMAIN db.jobs THEN None
    ELSE IF ~db.jobs[job_id].enabled THEN None
    ELSE LET db_job == db.jobs[job_id]
         IN  JobDefinition(db_job.job_id, db_job.description,
                           db_job.schedule,
                           task_from_dict(json_loads(db_job.task_config)))

load_job(job_id) ==
    /\ db' = [db EXCEPT !.loaded = load_job_returns(job_id)]
    /\ db_frame

\* JobPersistence.delete_job
delete_job(job_id) ==
    /\ job_id \in DOMAIN db.jobs
    /\ db' = [db EXCEPT !.jobs = MapDel(@, job_id)]
    /\ db_frame

\* JobPersistence.disable_job
disable_job(job_id) ==
    /\ job_id \in DOMAIN db.jobs
    /\ db' = [db EXCEPT !.jobs[job_id].enabled = FALSE]
    /\ db_frame

NextStore ==
    \/ \E job \in ValidJobs : save_job(job)
    \/ \E job_id \in JobIds : load_job(job_id)
    \/ \E job_id \in JobIds : delete_job(job_id)
    \/ \E job_id \in JobIds : disable_job(job_id)

SpecStore == Init /\ [][NextStore]_vars

\* ------------------------------------- ScheduleManager.create_scheduled_job
\* create_scheduled_job called on its own, as tests/test_schedule_manager.py
\* does: objs collects the values returned (NoEntry for None), log the events
\* written, and the clock advances between the calls.
create(job) ==
    LET created == create_scheduled_job(job)
    IN  /\ Len(objs) < MaxObj
        /\ objs' = Append(objs, created.entry)
        /\ log' = log \o created.events
        /\ UNCHANGED <<workers, files, watcher, job_logs, db, lock, api,
                       limiter>>
        /\ UNCHANGED <<now, jobs, scheduled_jobs, running, scheduler_thread,
                       tick, ctl>>

NextCreate ==
    \/ \E job \in CreateJobs : create(job)
    \/ clock

SpecCreate == Init /\ [][NextCreate]_vars

\* ------------------------------------------------------ the watch directory
\* someone writes (creates or replaces) the file at path p
write_file(p, c) ==
    /\ files.exists
    /\ files.stamp < MaxWrites
    /\ files' = [files EXCEPT
           !.stamp = @ + 1,
           !.dir = MapPut(@, p, [mtime |-> files.stamp + 1, content |-> c]),
           !.changed = TRUE]
    /\ UNCHANGED <<now, jobs, scheduled_jobs, objs, running, scheduler_thread,
                   tick, ctl, log, workers, watcher, job_logs, db, lock, api,
                   limiter>>

\* someone deletes the file at path p
delete_file(p) ==
    /\ p \in DOMAIN files.dir
    /\ files' = [files EXCEPT !.dir = MapDel(@, p), !.changed = TRUE]
    /\ UNCHANGED <<now, jobs, scheduled_jobs, objs, running, scheduler_thread,
                   tick, ctl, log, workers, watcher, job_logs, db, lock, api,
                   limiter>>

\* someone removes the watch directory with everything in it
remove_directory ==
    /\ files.exists
    /\ files' = [files EXCEPT !.exists = FALSE, !.dir = EmptyMap,
                              !.changed = TRUE]
    /\ UNCHANGED <<now, jobs, scheduled_jobs, objs, running, scheduler_thread,
                   tick, ctl, log, workers, watcher, job_logs, db, lock, api,
                   limiter>>

\* ------------------------------------------------------------ JobFileWatcher
\* a from_json_file that makes a job of whatever the file holds
readable_any_text(p) == p \in DOMAIN files.dir

\* Job.from_json_file(p) returns a job
readable(p) == p \in DOMAIN files.dir /\ files.dir[p].content.parses

from_json_file(p) == files.dir[p].content.job

\* the registry is left alone, one ERROR line is appended
watcher_log_error(error_msg) ==
    /\ Len(log) < MaxLog
    /\ log' = Append(log, log_error("", error_msg))
    /\ UNCHANGED <<jobs, scheduled_jobs, objs>>

watcher_frame == UNCHANGED <<now, running, scheduler_thread, tick, ctl,
                             workers, files, job_logs, db, lock, api, limiter>>

\* the locals of one pass of _watch, and of one handler call
pass_locals(w) ==
    [w EXCEPT !.json_files = {}, !.current_files = EmptyMap,
              !.file_path = "", !.job = Job("", "", "")]

\* start(): a no-op when running; else mkdir, glob for the startup load
watch_start ==
    /\ watcher.pc = "dead"
    /\ ~watcher.running
    /\ files' = [files EXCEPT !.exists = TRUE, !.changed = FALSE]
    /\ watcher' = [watcher EXCEPT !.pc = "load",
                                  !.json_files = DOMAIN files.dir]
    /\ UNCHANGED <<now, jobs, scheduled_jobs, objs, running, scheduler_thread,
                   tick, ctl, log, workers, job_logs, db, lock, api, limiter>>

\* _load_existing_jobs, one file: from_json_file and add_job
load_file(p) ==
    /\ watcher.pc = "load"
    /\ p \in watcher.json_files
    /\ IF readable(p)
       THEN /\ add_job_call(from_json_file(p))
            /\ watcher' = [watcher EXCEPT !.pc = "load_stat",
                               !.json_files = @ \ {p},
                               !.file_path = p, !.job = from_json_file(p)]
       ELSE /\ watcher_log_error("Error loading job file")
            /\ watcher' = [watcher EXCEPT !.json_files = @ \ {p}]
    /\ watcher_frame

\* _load_existing_jobs, the same file: stat, then the two index maps
load_stat ==
    /\ watcher.pc = "load_stat"
    /\ LET p == watcher.file_path
           w == [watcher EXCEPT !.pc = "load", !.file_path = "",
                                !.job = Job("", "", "")]
       IN  IF p \in DOMAIN files.dir
           THEN /\ watcher' = [w EXCEPT
                       !.file_timestamps = MapPut(@, p, files.dir[p].mtime),
                       !.file_to_job_id = MapPut(@, p, watcher.job.job_id)]
                /\ UNCHANGED <<jobs, scheduled_jobs, objs, log>>
           ELSE /\ watcher_log_error("Error loading job file")
                /\ watcher' = w
    /\ watcher_frame

\* a start() that starts the thread while files are still to be loaded
load_returned_early == TRUE

\* _load_existing_jobs returns when its for loop has had every listed file
load_returned == watcher.json_files = {}

\* start(), after the load: set running and start the thread
watch_thread_start ==
    /\ watcher.pc = "load"
    /\ load_returned
    /\ watcher' = [watcher EXCEPT !.running = TRUE, !.pc = "loop"]
    /\ UNCHANGED <<jobs, scheduled_jobs, objs, log>>
    /\ watcher_frame

\* stop(): clear the flag; join(timeout=5) returns when the thread has ended
\* or when the 5 s have passed, so the thread may still be inside a pass
watch_stop ==
    /\ watcher.running
    /\ watcher' = [watcher EXCEPT !.running = FALSE]
    /\ UNCHANGED <<jobs, scheduled_jobs, objs, log>>
    /\ watcher_frame

\* _watch: the while test, the directory test and the glob
watch_loop ==
    /\ watcher.pc = "loop"
    /\ IF watcher.running /\ files.exists
       THEN /\ watcher' = [watcher EXCEPT !.pc = "stat",
                                          !.json_files = DOMAIN files.dir]
            /\ files' = [files EXCEPT !.changed = FALSE]
       ELSE /\ watcher' = IF ~watcher.running
                          THEN [watcher EXCEPT !.pc = "dead"]
                          ELSE watcher
            /\ UNCHANGED files
    /\ UNCHANGED <<jobs, scheduled_jobs, objs, log>>
    /\ UNCHANGED <<now, running, scheduler_thread, tick, ctl, workers,
                   job_logs, db, lock, api, limiter>>

\* _watch: f.stat().st_mtime of one globbed path
watch_stat(p) ==
    /\ watcher.pc = "stat"
    /\ p \in watcher.json_files
    /\ p \in DOMAIN files.dir
    /\ watcher' = [watcher EXCEPT
           !.json_files = @ \ {p},
           !.current_files = MapPut(@, p, files.dir[p].mtime)]
    /\ UNCHANGED <<jobs, scheduled_jobs, objs, log>>
    /\ watcher_frame

\* _watch: except Exception: log the error, sleep, test the flag again
watch_except ==
    /\ watcher_log_error("Error in file watcher loop")
    /\ watcher' = [pass_locals(watcher) EXCEPT !.pc = "loop"]

\* _watch: stat of a globbed path that is gone raises FileNotFoundError
watch_stat_fault(p) ==
    /\ watcher.pc = "stat"
    /\ p \in watcher.json_files
    /\ p \notin DOMAIN files.dir
    /\ watch_except
    /\ watcher_frame

\* the paths of current_files the first loop of the pass has yet to handle
new_files ==
    {p \in DOMAIN watcher.current_files :
        p \notin DOMAIN watcher.file_timestamps}

modified_files ==
    {p \in DOMAIN watcher.current_files :
        /\ p \in DOMAIN watcher.file_timestamps
        /\ watcher.file_timestamps[p] # watcher.current_files[p]}

deleted_files ==
    (DOMAIN watcher.file_timestamps) \ (DOMAIN watcher.current_files)

scanning == watcher.pc = "stat" /\ watcher.json_files = {}

\* _handle_new_file, then file_timestamps[file_path] = mtime
handle_new_file(p) ==
    /\ scanning
    /\ p \in new_files
    /\ IF readable(p)
       THEN /\ add_job_call(from_json_file(p))
            /\ watcher' = [watcher EXCEPT
                   !.file_to_job_id = MapPut(@, p, from_json_file(p).job_id),
                   !.file_timestamps = MapPut(@, p, watcher.current_files[p])]
       ELSE /\ watcher_log_error("Error processing new job file")
            /\ watcher' = [watcher EXCEPT
                   !.file_timestamps = MapPut(@, p, watcher.current_files[p])]
    /\ watcher_frame

\* a handler that never takes a job_id for changed
job_id_changed_never(p) == FALSE

\* _handle_modified_file: the path is indexed under another job_id
job_id_changed(p) ==
    /\ p \in DOMAIN watcher.file_to_job_id
    /\ watcher.file_to_job_id[p] # from_json_file(p).job_id

\* _handle_modified_file up to its first registry call
handle_modified_file(p) ==
    /\ scanning
    /\ p \in modified_files
    /\ IF ~readable(p)
       THEN /\ watcher_log_error("Error processing modified job file")
            /\ watcher' = [watcher EXCEPT
                   !.file_timestamps = MapPut(@, p, watcher.current_files[p])]
       ELSE IF job_id_changed(p)
       THEN /\ remove_job_call(watcher.file_to_job_id[p])
            /\ watcher' = [watcher EXCEPT !.pc = "modified_add",
                   !.file_path = p, !.job = from_json_file(p)]
       ELSE /\ add_job_call(from_json_file(p))
            /\ watcher' = [watcher EXCEPT
                   !.file_to_job_id = MapPut(@, p, from_json_file(p).job_id),
                   !.file_timestamps = MapPut(@, p, watcher.current_files[p])]
    /\ watcher_frame

\* _handle_modified_file after remove_job(old_job_id): add_job(job)
handle_modified_add ==
    /\ watcher.pc = "modified_add"
    /\ add_job_call(watcher.job)
    /\ LET p == watcher.file_path
       IN  watcher' = [watcher EXCEPT !.pc = "stat",
               !.file_path = "", !.job = Job("", "", ""),
               !.file_to_job_id = MapPut(@, p, watcher.job.job_id),
               !.file_timestamps = MapPut(@, p, watcher.current_files[p])]
    /\ watcher_frame

\* _handle_deleted_file, then del file_timestamps[file_path]
handle_deleted_file(p) ==
    /\ scanning
    /\ new_files = {} /\ modified_files = {}
    /\ p \in deleted_files
    /\ IF p \in DOMAIN watcher.file_to_job_id
       THEN /\ remove_job_call(watcher.file_to_job_id[p])
            /\ watcher' = [watcher EXCEPT
                   !.file_to_job_id = MapDel(@, p),
                   !.file_timestamps = MapDel(@, p)]
       ELSE /\ watcher' = [watcher EXCEPT !.file_timestamps = MapDel(@, p)]
            /\ UNCHANGED <<jobs, scheduled_jobs, objs, log>>
    /\ watcher_frame

\* _watch: the pass is over, time.sleep(2)
watch_sleep ==
    /\ scanning
    /\ new_files = {} /\ modified_files = {} /\ deleted_files = {}
    /\ watcher' = [pass_locals(watcher) EXCEPT !.pc = "loop"]
    /\ UNCHANGED <<jobs, scheduled_jobs, objs, log>>
    /\ watcher_frame

WatchStep ==
    \/ watch_loop
    \/ \E p \in Paths : watch_stat(p)
    \/ \E p \in Paths : watch_stat_fault(p)
    \/ \E p \in Paths : handle_new_file(p)
    \/ \E p \in Paths : handle_modified_file(p)
    \/ handle_modified_add
    \/ \E p \in Paths : handle_deleted_file(p)
    \/ watch_sleep

\* The watcher from its construction on, with the files of its directory
\* written and deleted under it; its stop() is part of the shutdown, which
\* SpecLoops covers.
NextWatch ==
    \/ \E p \in Paths, c \in FileContents : write_file(p, c)
    \/ \E p \in Paths : delete_file(p)
    \/ remove_directory
    \/ watch_start
    \/ \E p \in Paths : load_file(p)
    \/ load_stat
    \/ watch_thread_start
    \/ watch_loop
    \/ \E p \in Paths : watch_stat(p)
    \/ \E p \in Paths : watch_stat_fault(p)
    \/ \E p \in Paths : handle_new_file(p)
    \/ \E p \in Paths : handle_modified_file(p)
    \/ handle_modified_add
    \/ \E p \in Paths : handle_deleted_file(p)
    \/ watch_sleep

SpecWatch == Init /\ [][NextWatch]_vars /\ WF_vars(WatchStep)

\* ------------------------------------------------- the two long-lived loops
\* main(): scheduler.start(), then file_watcher.start() on a watch directory
\* without files; from here to the shutdown nothing starts either service
\* again.
InitLoops ==
    /\ now = 0
    /\ jobs = EmptyMap
    /\ scheduled_jobs = << >>
    /\ objs = << >>
    /\ running = TRUE
    /\ scheduler_thread = 1
    /\ tick = [t \in ThreadIds |->
                 [pc |-> IF t = 1 THEN "loop" ELSE "dead",
                  jobs_to_run |-> << >>, i |-> 0]]
    /\ ctl = "idle"
    /\ log = <<log_start>>
    /\ workers = EmptyMap
    /\ files = WatchDirectory
    /\ watcher = [JobFileWatcher EXCEPT !.running = TRUE, !.pc = "loop"]
    /\ job_logs = JobLogger
    /\ db = Database
    /\ lock = Lock
    /\ api = ApiThread
    /\ limiter = ResourceLimiter

\* main(), the shutdown: file_watcher.stop() has returned when
\* scheduler.stop() is called.
signal_handler == ~watcher.running

\* One definition file, written and deleted, feeds the registry through the
\* watcher while the tick loop runs; the shutdown stops both.
NextLoops ==
    \/ write_file("f1", [parses |-> TRUE, job |-> Job("a", "* * * * *", "echo 1")])
    \/ delete_file("f1")
    \/ watch_stop
    \/ watch_loop
    \/ \E p \in Paths : watch_stat(p)
    \/ \E p \in Paths : watch_stat_fault(p)
    \/ \E p \in Paths : handle_new_file(p)
    \/ \E p \in Paths : handle_modified_file(p)
    \/ \E p \in Paths : handle_deleted_file(p)
    \/ watch_sleep
    \/ signal_handler /\ stop_begin
    \/ stop_join
    \/ \E t \in ThreadIds : run_loop(t)
    \/ \E t \in ThreadIds : run_snapshot(t)
    \/ \E t \in ThreadIds : run_dispatch(t)
    \/ \E t \in ThreadIds : run_fault(t)
    \/ \E t \in ThreadIds : run_post(t)
    \/ clock

SpecLoops == InitLoops /\ [][NextLoops]_vars

\* ================================================================== claims
\* The object the tick-loop thread t is working on.
Current(t) == tick[t].jobs_to_run[tick[t].i]

\* Thread t takes the last step of a tick: the locked step for the last
\* entry of jobs_to_run, after which it stands at the while test again.
TickEnd(t) == run_post(t) /\ tick[t].i = Len(tick[t].jobs_to_run)

\* The objects thread t dispatched in the tick it is about to end.
Dispatched(t) ==
    {tick[t].jobs_to_run[k] : k \in 1..Len(tick[t].jobs_to_run)}

InMap(o) == \E n \in 1..Len(scheduled_jobs) : scheduled_jobs[n].val = o

\* A schedule string for which no entry can be created now.
Unschedulable(job) ==
    IF ContainsT(job.schedule) \/ ContainsZ(job.schedule)
    THEN \/ fromisoformat(ReplaceZ(job.schedule)) = ValueError
         \/ fromisoformat(ReplaceZ(job.schedule)) <= now
    ELSE CronStep(job.schedule) = ValueError

\* C1: in every reachable state the key set of scheduled_jobs is a subset
\* of the key set of jobs.
C1_EntriesSubsetOfJobs == Keys(scheduled_jobs) \subseteq DOMAIN jobs

\* A job is known without an entry beside a job that has one, after the
\* tick loop has fired and evicted a one-shot entry.
C1_Witness ==
    /\ Keys(scheduled_jobs) # {}
    /\ (DOMAIN jobs) \ Keys(scheduled_jobs) # {}
    /\ \E o \in 1..Len(objs) :
         objs[o].kind = "once" /\ objs[o].runs = 1 /\ ~InMap(o)

\* C2: a one-shot entry is handed to the executor at most once over its
\* whole lifetime.
C2_OneShotAtMostOnce ==
    \A o \in 1..Len(objs) : objs[o].kind = "once" => objs[o].runs <= 1

\* C3 as stated: when a tick that dispatched a one-shot entry ends, so that
\* the thread stands at the start of the following tick, the entry's job_id
\* is absent from scheduled_jobs and present in jobs.
C3_JobIdAbsentNextTick ==
    [][\A t \in ThreadIds :
          TickEnd(t) =>
              \A o \in Dispatched(t) :
                  objs[o].kind = "once" =>
                      /\ objs[o].job.job_id \notin Keys(scheduled_jobs')
                      /\ objs[o].job.job_id \in DOMAIN jobs'
      ]_vars

\* C3 amended: when a tick that dispatched a one-shot entry ends, that entry
\* is no longer in scheduled_jobs; an entry that has left scheduled_jobs
\* never returns to it; and no step of the tick loop changes jobs.
C3_EntryEvictedNextTick ==
    [][/\ \A t \in ThreadIds :
            TickEnd(t) =>
                \A o \in Dispatched(t) :
                    objs[o].kind = "once" =>
                        \A n \in 1..Len(scheduled_jobs') :
                            scheduled_jobs'[n].val # o
       /\ \A o \in 1..Len(objs) :
            ~InMap(o) => \A n \in 1..Len(scheduled_jobs') :
                            scheduled_jobs'[n].val # o
       /\ (\E t \in ThreadIds : TickStep(t)) => jobs' = jobs
      ]_vars

\* A tick that dispatched a one-shot entry has ended: the thread is at the
\* while test, the entry is out of scheduled_jobs, and its job is known and
\* has no entry.
C3_Witness ==
    /\ \E t \in ThreadIds : tick[t].pc = "loop"
    /\ \A t \in ThreadIds : tick[t].pc \in {"loop", "dead"}
    /\ \E o \in 1..Len(objs) :
         /\ objs[o].kind = "once" /\ objs[o].runs = 1 /\ ~InMap(o)
         /\ ~objs[o].cancelled
         /\ objs[o].job.job_id \in DOMAIN jobs
         /\ objs[o].job.job_id \notin Keys(scheduled_jobs)

\* C4: every reschedule() of a recurring entry yields a next_run_time
\* strictly greater than the previous one.
C4_NextRunStrictlyIncreasing ==
    [][\A t \in ThreadIds :
          (run_post(t) /\ objs[Current(t)].kind = "cron") =>
              objs'[Current(t)].next_run_time > objs[Current(t)].next_run_time
      ]_vars

\* A recurring entry created at minute 0 has been dispatched and
\* rescheduled twice: its next_run_time went from 1 to 2 to 3.
C4_Witness ==
    \E o \in 1..Len(objs) :
        /\ objs[o].kind = "cron" /\ objs[o].step = 1
        /\ objs[o].runs = 2 /\ objs[o].next_run_time = 3

\* C5: after a recurring entry is dispatched, its next fire time lies in
\* the future, so firings missed during a pause are not replayed.
C5_MissedFiringsNotReplayed ==
    [][\A t \in ThreadIds :
          (run_post(t) /\ objs[Current(t)].kind = "cron") =>
              objs'[Current(t)].next_run_time > now
      ]_vars

\* C6: add_job(j) leaves jobs[j.job_id] = j, and every step other than an
\* add_job or remove_job for the same id leaves jobs[id] as it was.
C6_JobIsWhatWasAdded ==
    [][/\ \A job \in Jobs :
            add_job(job) =>
                job.job_id \in DOMAIN jobs' /\ jobs'[job.job_id] = job
       /\ \A id \in DOMAIN jobs :
            (id \notin DOMAIN jobs' \/ jobs'[id] # jobs[id]) =>
                \/ remove_job(id)
                \/ \E job \in Jobs : job.job_id = id /\ add_job(job)
      ]_vars

\* The tick loop has dispatched the entry of a job that replaced an earlier
\* job of the same id, and the job map still holds the replacement.
C6_Witness ==
    \E o \in 1..Len(objs) :
        /\ objs[o].runs >= 1
        /\ objs[o].job.job_id \in DOMAIN jobs
        /\ jobs[objs[o].job.job_id] = objs[o].job
        /\ \E n \in 1..Len(log) :
             /\ log[n].type \in {"UPDATE", "SCHEDULE_CHANGE"}
             /\ log[n].job_id = objs[o].job.job_id

\* C7: each add_job appends exactly one of ADD, UPDATE, SCHEDULE_CHANGE:
\* ADD for an unknown id, SCHEDULE_CHANGE with the old and the new schedule
\* for a known id with a different schedule, UPDATE for an equal schedule.
C7_OneEventPerAddJob ==
    [][\A job \in Jobs :
          add_job(job) =>
              LET appended == SubSeq(log', Len(log) + 1, Len(log'))
                  kinds == SelectSeq(appended, LAMBDA e :
                             e.type \in {"ADD", "UPDATE", "SCHEDULE_CHANGE"})
              IN  /\ SubSeq(log', 1, Len(log)) = log
                  /\ Len(kinds) = 1
                  /\ kinds[1].job_id = job.job_id
                  /\ IF job.job_id \notin DOMAIN jobs
                     THEN kinds[1].type = "ADD"
                     ELSE IF jobs[job.job_id].schedule # job.schedule
                     THEN /\ kinds[1].type = "SCHEDULE_CHANGE"
                          /\ kinds[1].old_schedule = jobs[job.job_id].schedule
                          /\ kinds[1].new_schedule = job.schedule
                     ELSE kinds[1].type = "UPDATE"
      ]_vars

\* The log holds an ADD, then a SCHEDULE_CHANGE with two different
\* schedules, then an UPDATE for one job.
C7_Witness ==
    \E n1, n2, n3 \in 1..Len(log) :
        /\ n1 < n2 /\ n2 < n3
        /\ log[n1].type = "ADD"
        /\ log[n2].type = "SCHEDULE_CHANGE"
        /\ log[n2].old_schedule # log[n2].new_schedule
        /\ log[n3].type = "UPDATE"
        /\ log[n1].job_id = log[n2].job_id /\ log[n2].job_id = log[n3].job_id

\* C8: remove_job(id) leaves id in neither map and appends one DELETE; for
\* an unknown id the maps stay as they are; no other job or entry changes.
C8_RemoveJobEffect ==
    [][\A id \in JobIds :
          remove_job(id) =>
              /\ id \notin DOMAIN jobs'
              /\ id \notin Keys(scheduled_jobs')
              /\ log' = Append(log, log_delete(id))
              /\ (id \notin DOMAIN jobs /\ id \notin Keys(scheduled_jobs)) =>
                    jobs' = jobs /\ scheduled_jobs' = scheduled_jobs
              /\ \A other \in (DOMAIN jobs) \ {id} :
                    other \in DOMAIN jobs' /\ jobs'[other] = jobs[other]
              /\ \A other \in Keys(scheduled_jobs) \ {id} :
                    /\ other \in Keys(scheduled_jobs')
                    /\ Get(scheduled_jobs', other) = Get(scheduled_jobs, other)
                    /\ objs'[Get(scheduled_jobs, other)]
                          = objs[Get(scheduled_jobs, other)]
      ]_vars

\* A scheduled job was removed while another job kept its entry, and an
\* unknown id was removed as well.
C8_Witness ==
    /\ \E o \in 1..Len(objs) : objs[o].removed
    /\ Keys(scheduled_jobs) # {}
    /\ \E n \in 1..Len(log) :
         /\ log[n].type = "DELETE"
         /\ \A m \in 1..(n - 1) : log[m].job_id # log[n].job_id

\* C9: no entry is handed to the executor after remove_job removed it.
C9_NoDispatchAfterRemove ==
    [][\A t \in ThreadIds :
          run_dispatch(t) => ~objs[Current(t)].removed
      ]_vars

\* C10: after add_job(j) with a schedule that cannot be scheduled,
\* j.job_id is in jobs and has no binding in scheduled_jobs.
C10_UnschedulableHasNoEntry ==
    [][\A job \in Jobs :
          (add_job(job) /\ Unschedulable(job)) =>
              /\ job.job_id \in DOMAIN jobs'
              /\ job.job_id \notin Keys(scheduled_jobs')
      ]_vars


\* The events one step appended to the log.
Appended == SubSeq(log', Len(log) + 1, Len(log'))

\* C11: every add_job whose schedule is rejected appends an event, other
\* than its own ADD / UPDATE / SCHEDULE_CHANGE, that names the job_id: an
\* ERROR for an invalid cron expression or an unparseable instant, a warning
\* or ERROR for an instant that is not after now.
C11_RejectionIsLogged ==
    [][\A job \in Jobs :
          (add_job(job) /\ Unschedulable(job)) =>
              \E n \in 1..Len(Appended) :
                  /\ Appended[n].type \notin {"ADD", "UPDATE", "SCHEDULE_CHANGE"}
                  /\ Appended[n].job_id = job.job_id
      ]_vars

\* The schedule of job parses as an instant that is not after now.
PastInstant(job) ==
    /\ is_one_time_schedule(job)
    /\ fromisoformat(ReplaceZ(job.schedule)) # ValueError
    /\ fromisoformat(ReplaceZ(job.schedule)) <= now

\* C12: an add_job of a job whose schedule is a past instant creates no
\* entry object (so nothing of it can ever be dispatched), and appends no
\* ADD event for the job.
C12_PastInstantNoRunNoAdd ==
    [][\A job \in Jobs :
          (add_job(job) /\ PastInstant(job)) =>
              /\ Len(objs') = Len(objs)
              /\ \A n \in 1..Len(Appended) :
                    ~(Appended[n].type = "ADD"
                        /\ Appended[n].job_id = job.job_id)
      ]_vars

\* The instant an ISO-8601 string denotes, in minutes since
\* 2030-01-01T00:00:00Z: a trailing Z is +00:00, a string without offset is
\* UTC; ValueError for a string that is no ISO-8601 instant.
IsoInstant(s) ==
    CASE s = "2030-01-01T00:02:00Z" -> 2
      [] s = "2030-01-01T00:01:00" -> 1
      [] s = "2030-01-01T02:01:00+02:00" -> 1
      [] OTHER -> ValueError

\* The string is an instant by the heuristic: it contains T or Z.
IsInstantString(s) == ContainsT(s) \/ ContainsZ(s)

\* The string is a cron expression croniter accepts.
ValidCron(s) == CronStep(s) # ValueError

\* The value the last create(job) returned.
Returned == objs'[Len(objs')]

\* C13 as stated: create_scheduled_job returns a one-shot entry with
\* schedule_time = parsed exactly when the schedule contains T or Z, parses
\* and is after now; None when it is not after now or does not parse; a
\* recurring entry with next_run_time after now for a valid cron string; None
\* for an invalid cron string.
C13_CreateByValidCron ==
    [][\A job \in CreateJobs :
          create(job) =>
              LET s == job.schedule
                  parsed == IsoInstant(s)
              IN  /\ Returned.kind = "once" <=>
                        (IsInstantString(s) /\ parsed # ValueError
                            /\ parsed > now)
                  /\ Returned.kind = "once" =>
                        Returned.schedule_time = parsed
                  /\ (IsInstantString(s)
                        /\ (parsed = ValueError \/ parsed <= now)) =>
                        Returned = NoEntry
                  /\ ValidCron(s) =>
                        Returned.kind = "cron" /\ Returned.next_run_time > now
                  /\ (~IsInstantString(s) /\ ~ValidCron(s)) =>
                        Returned = NoEntry
      ]_vars

\* C13 amended: as above, with the recurring entry returned for a valid cron
\* string that contains neither T nor Z.
C13_CreateByClassification ==
    [][\A job \in CreateJobs :
          create(job) =>
              LET s == job.schedule
                  parsed == IsoInstant(s)
              IN  /\ Returned.kind = "once" <=>
                        (IsInstantString(s) /\ parsed # ValueError
                            /\ parsed > now)
                  /\ Returned.kind = "once" =>
                        Returned.schedule_time = parsed
                  /\ (IsInstantString(s)
                        /\ (parsed = ValueError \/ parsed <= now)) =>
                        Returned = NoEntry
                  /\ (~IsInstantString(s) /\ ValidCron(s)) =>
                        Returned.kind = "cron" /\ Returned.next_run_time > now
                  /\ (~IsInstantString(s) /\ ~ValidCron(s)) =>
                        Returned = NoEntry
      ]_vars

\* An instant with an offset was turned into a one-shot entry at minute 0,
\* and at minute 2 a call returned None without an ERROR event: an instant
\* not after now.
C13_Witness ==
    /\ Len(objs) = 2
    /\ objs[1].kind = "once"
    /\ objs[1].job.schedule = "2030-01-01T02:01:00+02:00"
    /\ objs[1].schedule_time = 1
    /\ objs[2] = NoEntry
    /\ log = << >>
    /\ now >= 2
    /\ ~running /\ jobs = EmptyMap

\* The fire time of an entry: schedule_time or next_run_time.
FireTime(e) == IF e.kind = "once" THEN e.schedule_time ELSE e.next_run_time

\* C14: should_run is true exactly when the entry is not cancelled and now
\* has reached its fire time; a cancelled entry stays cancelled, so should_run
\* is false for it in every later state.
C14_ShouldRun ==
    /\ [](\A o \in 1..Len(objs) :
            should_run(objs[o]) <=>
                (~objs[o].cancelled /\ now >= FireTime(objs[o])))
    /\ [][\A o \in 1..Len(objs) :
            objs[o].cancelled => objs'[o].cancelled]_vars

\* A cancelled recurring entry whose fire time has passed stands beside an
\* entry that is due and not cancelled.
C14_Witness ==
    /\ \E o \in 1..Len(objs) :
         /\ objs[o].kind = "cron" /\ objs[o].cancelled
         /\ now >= objs[o].next_run_time
         /\ ~should_run(objs[o])
    /\ \E o \in 1..Len(objs) : ~objs[o].cancelled /\ should_run(objs[o])

\* Entry object o is in the entry map and due, and has been dispatched n
\* times so far.
DueAfter(o, n) ==
    IF o <= Len(objs)
    THEN InMap(o) /\ should_run(objs[o]) /\ objs[o].runs = n
    ELSE FALSE

\* Entry object o has been dispatched more than n times, or it has left the
\* entry map, is cancelled or was rescheduled to a later time.
ServedAfter(o, n) ==
    IF o <= Len(objs)
    THEN objs[o].runs > n \/ ~InMap(o) \/ ~should_run(objs[o])
    ELSE FALSE

\* A tick-loop thread is live and the scheduler is running.
LoopLive == running /\ \E t \in ThreadIds : tick[t].pc # "dead"

\* C15: the tick loop never waits for an execution: a live tick-loop thread
\* always has its next step enabled, whatever executions are running, and
\* no entry stays due without being dispatched, also when no execution ever
\* ends.
C15_TickNeverWaits ==
    /\ [](\A t \in ThreadIds : tick[t].pc # "dead" => ENABLED TickStep(t))
    /\ \A o \in 1..MaxObj : \A n \in 0..MaxTime :
          (DueAfter(o, n) /\ LoopLive) ~> ServedAfter(o, n)

\* Two executions of job "a" and one of job "b" are running at once: each
\* was dispatched while the earlier ones had not ended.
C15_Witness ==
    \E o, p \in DOMAIN workers :
        /\ o # p
        /\ workers[o] = 2 /\ objs[o].job.job_id = "a"
        /\ workers[p] = 1 /\ objs[p].job.job_id = "b"
        /\ objs[o].runs = 2

\* The number of worker threads running.
RECURSIVE SumWorkers(_)
SumWorkers(S) ==
    IF S = {} THEN 0
    ELSE LET o == CHOOSE x \in S : TRUE
         IN  workers[o] + SumWorkers(S \ {o})

\* C16: the number of executions running at the same time never exceeds
\* max_concurrent_jobs.
C16_ConcurrencyCapped == SumWorkers(DOMAIN workers) <= max_concurrent_jobs

\* The START and STOP events of the log, in order.
Lifecycle == SelectSeq(log, LAMBDA e : e.type \in {"START", "STOP"})

\* C17: start() on a running scheduler starts no thread and logs nothing;
\* stop() on a scheduler that is not running changes nothing and logs
\* nothing; so the START and STOP events of the log alternate, START first.
C17_LifecycleIdempotent ==
    /\ [][(start /\ running) => (tick' = tick /\ log' = log)]_vars
    /\ [][(stop_begin /\ ~running) => (log' = log /\ ctl' = ctl)]_vars
    /\ [](\A n \in 1..Len(Lifecycle) :
            Lifecycle[n].type = IF n % 2 = 1 THEN "START" ELSE "STOP")

\* The ERROR line a caught fault of the tick loop leaves in the log.
TickError == log_error("", "can't start new thread")

\* The ERROR line a caught fault of a watcher pass leaves in the log.
PassError == log_error("", "Error in file watcher loop")

InLog(e) == \E n \in 1..Len(log) : log[n] = e

\* C18: a fault raised while the tick loop dispatches, or while a watcher
\* pass stats the files it listed, is caught: one ERROR event is appended
\* and the thread stands at its while test again, from where its next step
\* is enabled and, with the running flag set, starts the next iteration.
\* A thread of either loop ends only in a state where its running flag is
\* cleared.
C18_LoopsSurviveFaults ==
    /\ [][\A t \in ThreadIds :
            run_fault(t) =>
                (Appended = <<TickError>> /\ tick'[t].pc = "loop")]_vars
    /\ [][\A p \in Paths :
            watch_stat_fault(p) =>
                (Appended = <<PassError>> /\ watcher'.pc = "loop")]_vars
    /\ [](\A t \in ThreadIds : tick[t].pc = "loop" => ENABLED run_loop(t))
    /\ [](watcher.pc = "loop" => ENABLED watch_loop)
    /\ [][\A t \in ThreadIds :
            (run_loop(t) /\ running) => tick'[t].pc = "snapshot"]_vars
    /\ [][(watch_loop /\ watcher.running /\ files.exists) =>
              watcher'.pc = "stat"]_vars
    /\ [][\A t \in ThreadIds :
            (tick[t].pc # "dead" /\ tick'[t].pc = "dead") => ~running]_vars
    /\ [][(watcher.pc # "dead" /\ watcher'.pc = "dead") =>
              ~watcher.running]_vars

\* Both loops have caught a fault and are in a later iteration: the tick
\* loop scans the entries, the watcher stats a new listing.
C18_Witness ==
    /\ InLog(TickError) /\ InLog(PassError)
    /\ running /\ tick[1].pc = "snapshot"
    /\ watcher.running /\ watcher.pc = "stat"

\* The watcher stands between two passes, and the file at path p is the
\* version it has recorded: it parses, its modification time is the one in
\* file_timestamps and its job_id the one in file_to_job_id.  A pass (or
\* the startup load) has handled this version, and the file is unchanged
\* since.
SeenUnchanged(p) ==
    /\ watcher.running /\ watcher.pc = "loop"
    /\ readable(p)
    /\ p \in DOMAIN watcher.file_timestamps
    /\ watcher.file_timestamps[p] = files.dir[p].mtime
    /\ p \in DOMAIN watcher.file_to_job_id
    /\ watcher.file_to_job_id[p] = from_json_file(p).job_id

\* C19: between passes, the job map holds the job_id of every definition
\* file that a pass has handled and that is unchanged since, whatever
\* happened to the other files of the directory.
C19_StableFileJobHeld ==
    \A p \in Paths :
        SeenUnchanged(p) => from_json_file(p).job_id \in DOMAIN jobs

\* The running watcher has loaded the file at path p, and the file is gone.
Disappeared(p) ==
    /\ watcher.running
    /\ p \in DOMAIN watcher.file_to_job_id
    /\ p \in DOMAIN watcher.file_timestamps
    /\ p \notin DOMAIN files.dir

\* The log and the heap of entry objects have room for what the rest of a
\* pass may append.
Room == Len(log) < MaxLog /\ Len(objs) < MaxObj

\* C20: the step that handles the disappearance of a loaded file calls
\* remove_job with the job_id recorded for the path: the job leaves the job
\* map and the entry map, a DELETE event for it is appended, and the path
\* leaves file_timestamps and file_to_job_id.  A running watcher takes this
\* step for every loaded file that has disappeared, unless the file comes
\* back or the watcher is stopped first.
C20_DisappearedFileRemoved ==
    /\ [][\A p \in Paths :
            (handle_deleted_file(p) /\ p \in DOMAIN watcher.file_to_job_id) =>
                LET job_id == watcher.file_to_job_id[p]
                IN  /\ job_id \notin DOMAIN jobs'
                    /\ job_id \notin Keys(scheduled_jobs')
                    /\ Appended = <<log_delete(job_id)>>
                    /\ p \notin DOMAIN watcher'.file_timestamps
                    /\ p \notin DOMAIN watcher'.file_to_job_id]_vars
    /\ \A p \in Paths :
          (Disappeared(p) /\ Room) ~> (~Disappeared(p) \/ ~Room)

\* The file at path p is known, modified, and parses to a job_id other than
\* the one recorded for p.
JobIdChanged(p) ==
    /\ scanning
    /\ p \in modified_files
    /\ readable(p)
    /\ p \in DOMAIN watcher.file_to_job_id
    /\ watcher.file_to_job_id[p] # from_json_file(p).job_id

Unparseable(p) == p \in DOMAIN files.dir /\ ~files.dir[p].content.parses

\* One ERROR event, and nothing else, is appended.
OneErrorAppended == Len(Appended) = 1 /\ Appended[1].type = "ERROR"

\* C22: the startup load, the new-file handler and the modified-file
\* handler, given a file that fails to parse, leave the job map, the entry
\* map, the entry objects and file_to_job_id as they were and append one
\* ERROR event.
C22_ParseFailureKeepsRegistry ==
    [][\A p \in Paths :
          (/\ Unparseable(p)
           /\ load_file(p) \/ handle_new_file(p) \/ handle_modified_file(p)) =>
              /\ jobs' = jobs
              /\ scheduled_jobs' = scheduled_jobs
              /\ objs' = objs
              /\ watcher'.file_to_job_id = watcher.file_to_job_id
              /\ watcher'.pc # "modified_add"
              /\ OneErrorAppended
      ]_vars

\* f1 was registered as job "a" and then overwritten with text that does
\* not parse: the modified-file handler has logged the error, job "a" is
\* still registered and indexed.
C22_Witness ==
    /\ Unparseable("f1")
    /\ InLog(log_error("", "Error processing modified job file"))
    /\ "a" \in DOMAIN jobs /\ "a" \in Keys(scheduled_jobs)
    /\ "f1" \in DOMAIN watcher.file_to_job_id
    /\ watcher.file_to_job_id["f1"] = "a"
    /\ watcher.file_timestamps["f1"] = files.dir["f1"].mtime

\* The paths the current pass has listed.
Listed == watcher.json_files \cup DOMAIN watcher.current_files

\* The current pass has work to do for path q: q was listed and is new or
\* modified with respect to the index, or q is indexed and was not listed.
Awaits(q) ==
    \/ /\ q \in Listed
       /\ q \in DOMAIN files.dir
       /\ \/ q \notin DOMAIN watcher.file_timestamps
          \/ watcher.file_timestamps[q] # files.dir[q].mtime
    \/ /\ q \in DOMAIN watcher.file_timestamps
       /\ q \notin Listed

\* The watcher step is an error on the file at path p: the file is gone at
\* the stat or at the read, or it does not parse.
FileError(p) ==
    \/ watch_stat_fault(p)
    \/ /\ handle_new_file(p) \/ handle_modified_file(p)
       /\ ~readable(p)

\* C23: an error on one file of a pass never ends the pass while another
\* file of the same pass still awaits processing.
C23_FileErrorsIsolated ==
    [][\A p \in Paths :
          (FileError(p) /\ \E q \in Paths \ {p} : Awaits(q)) =>
              watcher'.pc = "stat"
      ]_vars

\* start() is loading the files it listed; the poll loop has not begun.
Loading == watcher.pc \in {"load", "load_stat"}

\* The event add_job appends last for the job of file p: ADD for a job_id
\* the job map does not hold, else SCHEDULE_CHANGE or UPDATE.
LoadEvent(p) ==
    LET job == from_json_file(p)
    IN  add_job_event(job.job_id \notin DOMAIN jobs,
                      IF job.job_id \in DOMAIN jobs
                      THEN jobs[job.job_id].schedule ELSE "",
                      job)

\* The startup pass, step by step: start() lists every file of the
\* directory; each listed file that parses is passed to add_job, and while
\* it stays in place its modification time and its job_id are recorded;
\* the running flag is set, and the poll loop begins, only when no listed
\* file is left.
LoadsEveryFileFirst ==
    /\ [][watch_start =>
            (watcher'.json_files = DOMAIN files.dir /\ Loading')]_vars
    /\ [][\A p \in Paths :
            (load_file(p) /\ readable(p)) =>
                /\ from_json_file(p).job_id \in DOMAIN jobs'
                /\ jobs'[from_json_file(p).job_id] = from_json_file(p)
                /\ watcher'.pc = "load_stat"
                /\ watcher'.file_path = p]_vars
    /\ [][(load_stat /\ watcher.file_path \in DOMAIN files.dir) =>
            LET p == watcher.file_path
            IN  /\ watcher'.file_timestamps[p] = files.dir[p].mtime
                /\ watcher'.file_to_job_id[p] = watcher.job.job_id
                /\ watcher.job.job_id \in DOMAIN jobs]_vars
    /\ [](Loading => ~watcher.running)
    /\ [][(Loading /\ ~Loading') =>
            (watcher.json_files = {} /\ watcher.pc = "load"
             /\ watcher'.running /\ watcher'.pc = "loop")]_vars

Recorded == job_logs'.files \ job_logs.files

\* What ExecuteCommandExecutor.execute owes its caller for an outcome of the
\* child: success exactly on exit code 0, the child's exit code and stdout
\* when it ran to its end, and (false, "", message, -1) otherwise.
ExecuteResult(outcome, result) ==
    /\ result.success <=> (outcome.kind = "exit" /\ outcome.returncode = 0)
    /\ outcome.kind = "exit" =>
          /\ result.exit_code = outcome.returncode
          /\ result.stdout = outcome.stdout
    /\ outcome.kind # "exit" =>
          /\ ~result.success
          /\ result.stdout = ""
          /\ result.stderr \in {"Command timed out", "Error executing command"}
          /\ result.exit_code = -1

\* C25: whatever the child does (exit with any code, timeout, failure to
\* start), execute returns a result to run(): success exactly when the exit
\* code is 0, and (false, "", message, -1) on a timeout or a host error; the
\* worker goes on to log_execution with that result and ends, so that the
\* record written carries the returned exit code, output and status.
C25_ExecuteReturns ==
    [][\A o \in 1..MaxObj, outcome \in Outcomes, written \in BOOLEAN :
          execute_run(o, outcome, written) =>
              /\ ExecuteResult(outcome, execute_command(outcome))
              /\ job_logs'.uuids = job_logs.uuids + 1
              /\ written =>
                    \E r \in Recorded :
                        /\ Recorded = {r}
                        /\ ExecuteResult(outcome,
                                    [success |-> r.status = "SUCCESS",
                                     stdout |-> r.stdout,
                                     stderr |-> r.stderr,
                                     exit_code |-> r.exit_code])]_vars

\* Two executions have ended: one child exited with 0, the other was never
\* started or timed out, and both results are on record.
C25_Witness ==
    /\ \E r \in job_logs.files : r.status = "SUCCESS" /\ r.exit_code = 0
    /\ \E r \in job_logs.files :
          r.status = "FAILURE" /\ r.exit_code = -1 /\ r.stdout = ""

\* C26: when the execution log file of a run cannot be written, the step
\* appends an ERROR event for the job_id to scheduler.log, and nothing
\* propagates: the worker thread ends, and the scheduler and its tick-loop
\* threads are as they were.
C26_WriteFailureReported ==
    [][\A o \in 1..MaxObj, outcome \in Outcomes :
          execute_run(o, outcome, FALSE) =>
              /\ \E n \in 1..Len(Appended) :
                    /\ Appended[n].type = "ERROR"
                    /\ Appended[n].job_id = objs[o].job.job_id
              /\ Recorded = {}
              /\ UNCHANGED <<running, scheduler_thread, tick,
                             scheduled_jobs, jobs>>]_vars

\* The number of executions dispatched so far, over the first n entry objects.
RECURSIVE SumRuns(_)
SumRuns(n) == IF n = 0 THEN 0 ELSE objs[n].runs + SumRuns(n - 1)

\* The number of executions that have ended with their record written, and
\* the number that have ended at all.
Records == Cardinality(job_logs.files)

Ended == Records + Len(job_logs.stderr)

EntryDue(job_id) ==
    /\ job_id \in Keys(scheduled_jobs)
    /\ should_run(objs[Get(scheduled_jobs, job_id)])

\* This step is the reschedule or eviction that follows the dispatch of an
\* entry of job_id by tick-loop thread t.
ServedBy(t, job_id) ==
    /\ tick[t].pc = "post"
    /\ tick'[t] # tick[t]
    /\ objs[tick[t].jobs_to_run[tick[t].i]].job.job_id = job_id

\* C28: a job that is due stays due until the tick loop has dispatched it:
\* while the scheduler is running, no step other than the reschedule or
\* eviction that follows its dispatch takes the due entry of a job away,
\* unless the step removes the job or changes its definition; an add_job of
\* the same job_id with the same schedule in particular leaves it due for
\* the next tick.
C28_DueUntilDispatched ==
    [][\A job_id \in JobIds :
          (/\ running
           /\ EntryDue(job_id)
           /\ job_id \in DOMAIN jobs
           /\ job_id \in DOMAIN jobs'
           /\ jobs'[job_id] = jobs[job_id]
           /\ running')
          => \/ EntryDue(job_id)'
             \/ \E t \in ThreadIds : ServedBy(t, job_id)]_vars

\* C29 as stated: saving any valid job and loading its job_id gives back a
\* job equal to the one saved: after every save_job(job),
\* load_job(job.job_id) returns a Job with the same job_id, description,
\* schedule and task.
C29_SaveLoadRoundTrip ==
    [][\A job \in ValidJobs :
          save_job(job) => load_job_returns(job.job_id)' = job]_vars

\* The jobs table holds a disabled row for job_id.
Disabled(job_id) ==
    job_id \in DOMAIN db.jobs /\ ~db.jobs[job_id].enabled

\* C29 amended: the task of every valid job survives json.dumps, json.loads
\* and Task.from_dict; after save_job(job), load_job(job.job_id) returns a
\* Job equal to the one saved, with the same job_id, description, schedule
\* and task, unless the jobs table held a disabled row for that job_id:
\* save_job updates such a row without enabling it and load_job returns None.
C29_RoundTripUnlessDisabled ==
    /\ [](\A job \in ValidJobs :
            task_from_dict(json_loads(json_dumps(job.task))) = job.task)
    /\ [][\A job \in ValidJobs :
            save_job(job) =>
                load_job_returns(job.job_id)' =
                    IF Disabled(job.job_id) THEN None ELSE job]_vars
    /\ [][\A job_id \in JobIds :
            load_job(job_id) => db'.loaded = load_job_returns(job_id)]_vars

\* load_job has returned the job "a" with description "nightly" and command
\* "true", as the enabled row of "a" holds it.
C29_Witness ==
    /\ db.loaded = JobDefinition("a", "nightly", "* * * * *",
                                 ExecuteCommandTask("true"))
    /\ "a" \in DOMAIN db.jobs
    /\ db.jobs["a"].enabled
    /\ db.jobs["a"].description = "nightly"
    /\ db.jobs["a"].task_config = json_dumps(ExecuteCommandTask("true"))

\* The thread is about to write to the event log (the thread calling add_job
\* or remove_job) or to start the worker thread of an execution (a tick-loop
\* thread).
InIO(thread) ==
    IF thread = MainThread THEN api.pc = "log"
    ELSE tick[thread].pc = "dispatch"

\* C30: no thread holds the registry lock while it writes to the event log
\* or starts an execution.
C30_NoLockDuringIO ==
    \A thread \in ThreadIds \cup {MainThread} :
        InIO(thread) => lock # thread

\* C31: a recurring entry is advanced in the tick that dispatched it: the
\* hand-off to the worker thread takes the tick-loop thread straight to the
\* reschedule of the same entry, that step is enabled whether or not the
\* execution has ended, and it moves next_run_time forward by what
\* reschedule() computes, whatever the workers are doing; so the entry can be
\* dispatched again while its earlier execution is still running.
C31_AdvancedInDispatchTick ==
    /\ [][\A t \in ThreadIds :
            run_dispatch(t) =>
                /\ tick'[t].pc = "post"
                /\ tick'[t].i = tick[t].i
                /\ tick'[t].jobs_to_run = tick[t].jobs_to_run
                /\ Current(t) \in DOMAIN workers']_vars
    /\ [](\A t \in ThreadIds : tick[t].pc = "post" => ENABLED run_post(t))
    /\ [][\A t \in ThreadIds :
            (run_post(t) /\ objs[Current(t)].kind = "cron") =>
                /\ objs'[Current(t)] = reschedule(objs[Current(t)])
                /\ objs'[Current(t)].next_run_time >
                       objs[Current(t)].next_run_time
                /\ workers' = workers]_vars

\* A recurring entry has been dispatched twice and advanced past now, and
\* both of its executions are still running.
C31_Witness ==
    \E o \in DOMAIN workers :
        /\ objs[o].kind = "cron"
        /\ objs[o].runs = 2
        /\ workers[o] = 2
        /\ objs[o].next_run_time > now

\* C32: every step that changes the job map or the entry map appends an
\* event to scheduler.log.
C32_MutationsLogged ==
    [][(jobs' # jobs \/ scheduled_jobs' # scheduled_jobs) =>
          (Len(log') > Len(log) /\ SubSeq(log', 1, Len(log)) = log)]_vars

\* The events add_job and remove_job write.
RegistryEvents == {"ADD", "UPDATE", "SCHEDULE_CHANGE", "DELETE"}

\* C33: once the STOP event of the scheduler is in the log, the reconciler
\* calls neither add_job nor remove_job: no step after it changes the job
\* map or appends an ADD, UPDATE, SCHEDULE_CHANGE or DELETE event.
C33_NoRegistryCallAfterStop ==
    [][InLog(log_stop) =>
          /\ jobs' = jobs
          /\ \A n \in 1..Len(Appended) :
                Appended[n].type \notin RegistryEvents]_vars

\* C34: for a child that ran to its end, whatever its exit code, the result
\* of execute carries the child's stdout and stderr as captured: the record
\* that run() writes from the result holds both in full.
C34_OutputReturnedInFull ==
    [][\A o \in 1..MaxObj, outcome \in Outcomes :
          (execute_run(o, outcome, TRUE) /\ outcome.kind = "exit") =>
              \E r \in Recorded :
                  /\ r.exit_code = outcome.returncode
                  /\ r.stdout = outcome.stdout
                  /\ r.stderr = outcome.stderr]_vars

\* The file index holds exactly the files of the directory, each under the
\* mtime it has now: a pass that lists and stats this directory computes no
\* new, no modified and no deleted path.
IndexCurrent ==
    /\ DOMAIN watcher.file_timestamps = DOMAIN files.dir
    /\ \A p \in DOMAIN files.dir :
          watcher.file_timestamps[p] = files.dir[p].mtime

\* C35: a pass over a directory in which no file was written or deleted
\* since the pass before it listed the directory is a no-op.  When a pass
\* is about to list the directory and nothing has changed since the last
\* listing, the startup load included, the file index is current; and while
\* the index is current and nothing changes, no step of the pass calls
\* add_job or remove_job or changes the job map, the entry map or the file
\* index.
C35_UnchangedPassIsNoOp ==
    /\ []((watcher.pc = "loop" /\ ~files.changed) => IndexCurrent)
    /\ [][(IndexCurrent /\ ~files.changed /\ ~files.changed') =>
             /\ jobs' = jobs
             /\ scheduled_jobs' = scheduled_jobs
             /\ watcher.file_timestamps' = watcher.file_timestamps
             /\ watcher.file_to_job_id' = watcher.file_to_job_id
             /\ \A n \in 1..Len(Appended) :
                   Appended[n].type \notin RegistryEvents]_vars

\* C36: the tick loop evicts only the one-shot entry it dispatched: every
\* other entry that is in scheduled_jobs when the loop takes its eviction
\* step, an entry add_job has installed under the same job_id since the
\* scan included, is still in scheduled_jobs after the step.
C36_EvictsOnlyDispatched ==
    [][\A t \in ThreadIds :
          (run_post(t) /\ objs[Current(t)].kind = "once") =>
              \A n \in 1..Len(scheduled_jobs) :
                  scheduled_jobs[n].val # Current(t) =>
                      \E m \in 1..Len(scheduled_jobs') :
                          scheduled_jobs'[m] = scheduled_jobs[n]]_vars

\* C37: between registry operations, every entry in scheduled_jobs is not
\* cancelled and its job is the Job stored in jobs under the same job_id.
C37_EntriesLiveAndCurrent ==
    \A n \in 1..Len(scheduled_jobs) :
        /\ ~objs[scheduled_jobs[n].val].cancelled
        /\ scheduled_jobs[n].key \in DOMAIN jobs
        /\ objs[scheduled_jobs[n].val].job = jobs[scheduled_jobs[n].key]

\* The tick-loop threads that have been started and have not returned.
LiveLoops == {t \in ThreadIds : tick[t].pc # "dead"}

\* C38: at most one tick-loop thread is live at any time, whatever start()
\* and stop() calls are made, a start() after a stop() whose join timed out
\* included.
C38_OneLiveLoop == Cardinality(LiveLoops) <= 1

\* The calls of acquire that took a permit and have not been followed by
\* their release.
Outstanding ==
    {c \in CallerIds : limiter.callers[c].pc \in {"acquired", "holding"}}

\* C39: the limiter never leaks a permit: in every state the free permits
\* of the semaphore and the outstanding successful acquire calls add up to
\* max_concurrent, so that with every acquire released all permits are free
\* again, also when one job_id acquires twice before it releases.
C39_NoPermitLeak ==
    limiter.semaphore + Cardinality(Outstanding) = limiter.max_concurrent

====
